---- MODULE Spec2Model ----
(***************************************************************************)
(* Model of the OAuth authorization proxy of linkedin-api-mcp-server       *)
(* (src/src/index.ts): the signed-token codec (createJWT / verifyJWT), the *)
(* four process-wide stores, the authorize / callback / token endpoints,   *)
(* the tool authenticator and the background reaper; and of the REST      *)
(* client the tools build from a session (class LinkedInClient,           *)
(* src/src/client/linkedin-marketing-client.ts).                          *)
(*                                                                         *)
(* The HTTP handlers run on one event loop: a handler is atomic between    *)
(* its awaits.  The callback handler suspends in exchangeLinkedInCode and  *)
(* the token handler suspends in readBody, so each is split in a Start and *)
(* a Resume action; every other handler is one action.                     *)
(*                                                                         *)
(* crypto.randomBytes(n) is modelled as a fresh identifier (a counter      *)
(* rendered as a string); the HMAC is modelled as a free constructor over  *)
(* (key, header segment, payload segment), i.e. a collision-free MAC.      *)
(***************************************************************************)
EXTENDS Integers, Sequences, FiniteSets, TLC

VARIABLES
    now,                \* Date.now(), in milliseconds
    lastTick,           \* time of the last run of the setInterval callback
    transactions,       \* Map<string, OAuthTransaction>
    authCodes,          \* Map<string, AuthCode>
    registeredClients,  \* Map<string, {redirectUris, createdAt}>
    tokenStore,         \* Map<string, {linkedInTokens, createdAt}>
    callbacks,          \* callback handlers suspended in `await exchangeLinkedInCode`
                        \* (late: the transaction was older than its TTL when read;
                        \* retry: an exchange for it had failed before)
    tokenReqs,          \* token handlers suspended in `await readBody()`
    ntxn,               \* number of transaction identifiers drawn so far
    ncb,                \* number of callbacks that reached the upstream exchange
    ntok,               \* number of token requests received
    nreg,               \* number of client identifiers drawn so far
    resp,               \* what the last step answered (NoResponse if it answered nothing)
    mintedBy,           \* history: authorization code -> the callback that minted it
    issued,             \* history: the 200 responses of the token endpoint
                        \* (late: the code was older than its TTL when redeemed;
                        \* sent: the other parameters of the request)
    failedTxns,         \* history: the transactions a callback of which failed in
                        \* the upstream exchange
    jwtIn,              \* codec harness: the input of the last createJWT call
    jwtTok,             \* codec harness: the token under test
    client              \* the LinkedInClient of the tool call in progress, with the
                        \* position of its makeRequest and the number of refresh
                        \* calls and sends of that makeRequest

vars == <<now, lastTick, transactions, authCodes, registeredClients, tokenStore,
          callbacks, tokenReqs, ntxn, ncb, ntok, nreg, resp, mintedBy, issued, failedTxns,
          jwtIn, jwtTok, client>>

stores == <<transactions, authCodes, registeredClients, tokenStore>>

-----------------------------------------------------------------------------
(* Bounds of the model *)

MaxTxn == 2         \* transactions created by the authorize endpoint
MaxCallbacks == 2   \* callbacks that reach the upstream exchange
MaxTokenReqs == 2   \* requests to the token endpoint
MaxClients == 2     \* clients registered by the registration endpoint

(* Program constants *)

TXN_TTL == 600000
CODE_TTL == 300000
SESSION_TTL == 3600000
REAPER_INTERVAL == 60000
TOKEN_TTL == 3600
MS_PER_SEC == 1000

JWT_SECRET == "server-secret"
LINKEDIN_SCOPES == <<"openid", "profile", "email", "w_member_social">>
SCOPE_STRING == "openid profile email w_member_social"
CALLBACK_URL == "BASE_URL/oauth/callback"

-----------------------------------------------------------------------------
(* Maps *)

EmptyMap == [k \in {} |-> 0]

MapSet(m, k, v) == [x \in DOMAIN m \cup {k} |-> IF x = k THEN v ELSE m[x]]

MapDelete(m, k) == [x \in DOMAIN m \ {k} |-> m[x]]

(* crypto.randomBytes(..).toString(..): a value never drawn before *)
RandomId(prefix, n) == prefix \o ToString(n)

-----------------------------------------------------------------------------
(* Signed token codec: createJWT / verifyJWT                                *)
(*                                                                          *)
(* A token is the sequence of its "."-separated segments (token.split(".")).*)
(* A segment is the base64url text of a JSON value, a signature, or text    *)
(* that is neither.                                                         *)

JWT_HEADER == [alg |-> "HS256", typ |-> "JWT"]

(* Buffer.from(JSON.stringify(obj)).toString("base64url") *)
Encode(obj) == [kind |-> "b64json", json |-> obj]

(* a segment missing from the split: the destructured variable is undefined *)
UndefinedSeg == [kind |-> "undefined"]

(* text that is no base64url JSON and no signature the server ever made *)
JunkSeg == [kind |-> "junk"]

(* crypto.createHmac("sha256", key).update(`${h}.${p}`).digest("base64url") *)
Hmac(key, h, p) == [kind |-> "hmac", key |-> key, h |-> h, p |-> p]

(* JSON.parse(Buffer.from(seg, "base64url").toString()) throws on non-JSON *)
CanParse(seg) == seg.kind = "b64json"

JsonParse(seg) == seg.json

(* the i-th variable of `const [a, b, c] = token.split(".")` *)
Segment(token, i) == IF i <= Len(token) THEN token[i] ELSE UndefinedSeg

(* mutant of FullPayload: { iat, exp, jti, ...payload }, the caller's claims last *)
FullPayloadClaimsLast(payload, expiresIn, t, rnd) ==
    LET nowSec == t \div MS_PER_SEC
    IN  [k \in DOMAIN payload \cup {"iat", "exp", "jti"} |->
            IF k \in DOMAIN payload THEN payload[k]
            ELSE IF k = "iat" THEN nowSec
            ELSE IF k = "exp" THEN nowSec + expiresIn
            ELSE rnd]

(* { ...payload, iat: now, exp: now + expiresIn, jti: random } *)
FullPayload(payload, expiresIn, t, rnd) ==
    LET nowSec == t \div MS_PER_SEC
    IN  [k \in DOMAIN payload \cup {"iat", "exp", "jti"} |->
            IF k = "iat" THEN nowSec
            ELSE IF k = "exp" THEN nowSec + expiresIn
            ELSE IF k = "jti" THEN rnd
            ELSE payload[k]]

(* createJWT(payload, expiresIn) called at time t (ms), drawing random rnd *)
createJWT(payload, expiresIn, t, rnd) ==
    LET headerB64 == Encode(JWT_HEADER)
        payloadB64 == Encode(FullPayload(payload, expiresIn, t, rnd))
        signature == Hmac(JWT_SECRET, headerB64, payloadB64)
    IN  <<headerB64, payloadB64, signature>>

Invalid == [valid |-> FALSE]

(* mutant of Expired: exp (seconds) is compared with Date.now() / 1000 scaled wrongly *)
ExpiredInMinutes(payload, t) ==
    /\ "exp" \in DOMAIN payload
    /\ payload.exp # 0
    /\ payload.exp < t \div (60 * MS_PER_SEC)

(* payload.exp && payload.exp < Math.floor(Date.now() / 1000) *)
Expired(payload, t) ==
    /\ "exp" \in DOMAIN payload
    /\ payload.exp # 0
    /\ payload.exp < t \div MS_PER_SEC

(* mutant of verifyJWT: the signature is not compared *)
verifyJWTUnsigned(token, t) ==
    LET payloadB64 == Segment(token, 2)
    IN  IF ~CanParse(payloadB64) THEN Invalid
        ELSE IF Expired(JsonParse(payloadB64), t) THEN Invalid
        ELSE [valid |-> TRUE, payload |-> JsonParse(payloadB64)]

(* verifyJWT(token) called at time t (ms); a throw is caught and is invalid *)
verifyJWT(token, t) ==
    LET headerB64 == Segment(token, 1)
        payloadB64 == Segment(token, 2)
        signature == Segment(token, 3)
        expectedSig == Hmac(JWT_SECRET, headerB64, payloadB64)
    IN  IF signature # expectedSig THEN Invalid
        ELSE IF ~CanParse(payloadB64) THEN Invalid
        ELSE IF Expired(JsonParse(payloadB64), t) THEN Invalid
        ELSE [valid |-> TRUE, payload |-> JsonParse(payloadB64)]

-----------------------------------------------------------------------------
(* Tool authenticator                                                       *)

Undefined == [undefined |-> TRUE]

NoHeader == [present |-> FALSE]

(* the Authorization header `${prefix}${token}`; prefix has 7 characters *)
Header(prefix, token) == [present |-> TRUE, prefix |-> prefix, rest |-> token]

(* payload?.sub is truthy *)
HasSub(payload) == "sub" \in DOMAIN payload /\ payload.sub # ""

(* mutant of authenticate: the scheme of the Authorization header is not checked *)
authenticateAnyScheme(authHeader, store, t) ==
    IF ~authHeader.present THEN Undefined
    ELSE LET result == verifyJWT(authHeader.rest, t)
         IN  IF ~result.valid THEN Undefined
             ELSE IF ~HasSub(result.payload) THEN Undefined
             ELSE IF result.payload.sub \notin DOMAIN store THEN Undefined
             ELSE store[result.payload.sub].linkedInTokens

(* authenticate(request) over the session store `store` at time t *)
authenticate(authHeader, store, t) ==
    IF ~(authHeader.present /\ authHeader.prefix = "Bearer ") THEN Undefined
    ELSE LET token == authHeader.rest
             result == verifyJWT(token, t)
         IN  IF ~result.valid THEN Undefined
             ELSE IF ~HasSub(result.payload) THEN Undefined
             ELSE IF result.payload.sub \notin DOMAIN store THEN Undefined
             ELSE store[result.payload.sub].linkedInTokens

-----------------------------------------------------------------------------
(* Requests and responses                                                   *)

(* url.searchParams.get / params.get of a parameter that is not there *)
Null == "<null>"

(* !x for a string-or-null x *)
Falsy(x) == x = Null \/ x = ""

LINKEDIN_AUTH_ENDPOINT == "https://www.linkedin.com/oauth/v2/authorization"
UPSTREAM_CLIENT_ID == "LINKEDIN_CLIENT_ID"

NoLocation == [uri |-> ""]

(* what a step answered: an HTTP response, the value authenticate yields, or  *)
(* the result of a verifyJWT call; NoResponse when the step answered nothing  *)
(* (result also holds the JSON body of the registration endpoint's 200)       *)
NoResponse ==
    [ep |-> "none", id |-> 0, key |-> Null, status |-> 0, error |-> "", desc |-> "",
     location |-> NoLocation, token |-> <<>>, session |-> Undefined,
     result |-> Invalid]

(* json(data, status) with an OAuth error body *)
JsonError(ep, id, key, status, error, desc) ==
    [NoResponse EXCEPT !.ep = ep, !.id = id, !.key = key, !.status = status,
                       !.error = error, !.desc = desc]

(* res.writeHead(302, { Location }) *)
Redirect(ep, id, key, location) ==
    [NoResponse EXCEPT !.ep = ep, !.id = id, !.key = key, !.status = 302,
                       !.location = location]

(* an exception leaves the request handler: no response is written *)
Threw(ep, id, key) ==
    [NoResponse EXCEPT !.ep = ep, !.id = id, !.key = key, !.error = "uncaught"]

(* new URL(s) throws unless s parses as an absolute URL *)
IsUrl(s) == s \in {"https://app/cb", "https://other/cb"}

(* scope.split(" ") *)
SplitScope(scope) ==
    IF scope = "openid profile" THEN <<"openid", "profile">> ELSE <<scope>>

(* the query strings sent to /oauth/authorize *)
AuthorizeRequests ==
    { [client_id |-> "abc", redirect_uri |-> "https://app/cb", response_type |-> "code",
       state |-> "xyz", scope |-> Null, code_challenge |-> Null,
       code_challenge_method |-> Null],
      [client_id |-> "def", redirect_uri |-> "https://other/cb", response_type |-> "code",
       state |-> Null, scope |-> "openid profile", code_challenge |-> "ch1",
       code_challenge_method |-> "S256"],
      [client_id |-> "abc", redirect_uri |-> "not a url", response_type |-> "code",
       state |-> "xyz", scope |-> "", code_challenge |-> Null,
       code_challenge_method |-> Null],
      [client_id |-> "abc", redirect_uri |-> Null, response_type |-> "code",
       state |-> "xyz", scope |-> Null, code_challenge |-> Null,
       code_challenge_method |-> Null],
      [client_id |-> Null, redirect_uri |-> "https://app/cb", response_type |-> "code",
       state |-> "xyz", scope |-> Null, code_challenge |-> Null,
       code_challenge_method |-> Null],
      [client_id |-> "abc", redirect_uri |-> "https://app/cb", response_type |-> "token",
       state |-> "xyz", scope |-> Null, code_challenge |-> Null,
       code_challenge_method |-> Null] }

(* those of them the authorize endpoint accepts and whose redirect URI parses *)
FlowAuthorizeRequests ==
    {q \in AuthorizeRequests :
        /\ ~(Falsy(q.client_id) \/ Falsy(q.redirect_uri) \/ q.response_type # "code")
        /\ IsUrl(q.redirect_uri)}

(* authorize requests of clients that may have registered: the flow's own, *)
(* and requests under a registered client identifier, with a redirect URI  *)
(* that was registered and with one that was not                           *)
RegAuthorizeRequests ==
    FlowAuthorizeRequests
    \cup { [client_id |-> r, redirect_uri |-> u, response_type |-> "code",
            state |-> "xyz", scope |-> Null, code_challenge |-> Null,
            code_challenge_method |-> Null] :
          r \in DOMAIN registeredClients, u \in {"https://app/cb", "https://other/cb"} }

(* the transaction identifiers drawn so far *)
TxnIds == {RandomId("t", i) : i \in 1..ntxn}

(* the code the upstream provider hands to the next callback it redirects *)
NextUpstreamCode == RandomId("uc", ncb + 1)

(* the query strings sent to /oauth/callback *)
CallbackQueries ==
    { [code |-> NextUpstreamCode, state |-> t, error |-> Null,
       error_description |-> Null] : t \in TxnIds \cup {"bogus", Null} }
    \cup { [code |-> Null, state |-> t, error |-> Null, error_description |-> Null] :
          t \in TxnIds }
    \cup { [code |-> NextUpstreamCode, state |-> t, error |-> "access_denied",
            error_description |-> "user said no"] : t \in TxnIds \cup {Null} }

(* those of them the upstream provider sends for a flow that was started *)
FlowCallbackQueries ==
    {q \in CallbackQueries : Falsy(q.error) /\ q.state \in TxnIds /\ ~Falsy(q.code)}

(* a form body with grant_type and code only *)
TokenBody(grantType, code) ==
    [grant_type |-> grantType, code |-> code, redirect_uri |-> Null,
     code_verifier |-> Null, client_id |-> Null]

(* the form bodies sent to /oauth/token *)
TokenBodies ==
    { TokenBody("authorization_code", c) : c \in DOMAIN mintedBy \cup {"bogus", Null} }
    \cup { TokenBody(g, c) :
          g \in {"refresh_token", "password", Null}, c \in DOMAIN mintedBy }

(* bodies redeeming a code with and without redirect_uri, code_verifier and *)
(* client_id, none of which belongs to the attempt the code was minted for  *)
PkceTokenBodies ==
    { TokenBody("authorization_code", c) : c \in DOMAIN mintedBy }
    \cup { [TokenBody("authorization_code", c) EXCEPT
               !.redirect_uri = "https://evil/cb", !.code_verifier = "wrong",
               !.client_id = "zzz"] : c \in DOMAIN mintedBy }

(* those of them that redeem a code some callback handed out *)
FlowTokenBodies ==
    {b \in TokenBodies : b.grant_type = "authorization_code" /\ b.code \in DOMAIN mintedBy}

(* what the upstream token endpoint answers to the exchange of `code` *)
UpstreamAnswers(code) ==
    { [ok |-> TRUE, access_token |-> "at:" \o code, expires_in |-> 7200,
       refresh_token |-> IF code = "uc1" THEN "rt:" \o code ELSE Null,
       scope |-> "openid profile"],
      [ok |-> FALSE, error_description |-> "upstream refused"] }

(* exchangeLinkedInCode: the LinkedInSession built from a successful answer *)
exchangeLinkedInCode(answer, t) ==
    [accessToken |-> answer.access_token,
     refreshToken |-> answer.refresh_token,
     expiresAt |-> t + answer.expires_in * MS_PER_SEC,
     scope |-> SplitScope(answer.scope)]

-----------------------------------------------------------------------------
(* Initial state: the stores as constructed at module load                  *)

NoJwt == [made |-> FALSE]

(* no tool call has built a client yet *)
NoClient ==
    [pc |-> "none", ref |-> Null, accessToken |-> Null, refreshToken |-> Null,
     tokenExpiry |-> 0, authenticated |-> FALSE, refreshes |-> 0, sends |-> 0,
     pre |-> FALSE, status |-> 0, error |-> ""]

Init ==
    /\ now = 0
    /\ lastTick = 0
    /\ transactions = EmptyMap
    /\ authCodes = EmptyMap
    /\ registeredClients = EmptyMap
    /\ tokenStore = EmptyMap
    /\ callbacks = {}
    /\ tokenReqs = {}
    /\ ntxn = 0
    /\ ncb = 0
    /\ ntok = 0
    /\ nreg = 0
    /\ resp = NoResponse
    /\ mintedBy = EmptyMap
    /\ issued = {}
    /\ failedTxns = {}
    /\ jwtIn = NoJwt
    /\ jwtTok = <<>>
    /\ client = NoClient

clock == <<now, lastTick>>
inflight == <<callbacks, tokenReqs>>
counters == <<ntxn, ncb, ntok, nreg>>
history == <<mintedBy, issued, failedTxns>>
harness == <<jwtIn, jwtTok, client>>

-----------------------------------------------------------------------------
(* POST /oauth/register                                                     *)

(* the bodies sent to /oauth/register: JSON objects with and without         *)
(* redirect_uris, and text that JSON.parse refuses                           *)
RegisterBodies ==
    { [json |-> TRUE, redirect_uris |-> [present |-> TRUE, value |-> <<"https://app/cb">>]],
      [json |-> TRUE, redirect_uris |-> [present |-> FALSE]],
      [json |-> FALSE] }

(* the entry stored for a new client *)
NewClient(body, t) ==
    [redirectUris |->
         IF body.redirect_uris.present THEN body.redirect_uris.value ELSE <<>>,
     createdAt |-> t]

(* mutant of RegistrationResponse: the secret is not the client identifier *)
RegistrationResponseOtherSecret(clientId, body) ==
    [client_id |-> clientId, client_secret |-> "secret",
     redirect_uris |-> body.redirect_uris]

(* the fields of the 200 body that depend on the request *)
RegistrationResponse(clientId, body) ==
    [client_id |-> clientId, client_secret |-> clientId,
     redirect_uris |-> body.redirect_uris]

(* the whole handler: nothing is read or written before `await readBody()` *)
Register(body) ==
    IF ~body.json
    THEN /\ resp' = Threw("register", 0, Null)
         /\ UNCHANGED <<clock, stores, inflight, counters, history, harness>>
    ELSE /\ nreg < MaxClients
         /\ LET clientId == RandomId("r", nreg + 1)
            IN  /\ registeredClients' =
                       MapSet(registeredClients, clientId, NewClient(body, now))
                /\ resp' = [NoResponse EXCEPT
                               !.ep = "register", !.key = clientId, !.status = 200,
                               !.result = RegistrationResponse(clientId, body)]
         /\ nreg' = nreg + 1
         /\ UNCHANGED <<clock, transactions, authCodes, tokenStore, inflight,
                        ntxn, ncb, ntok, history, harness>>

-----------------------------------------------------------------------------
(* GET /oauth/authorize                                                     *)

(* mutant of NewTransaction: the requested scope is dropped for the fixed list *)
NewTransactionFixedScope(q, state, t) ==
    [clientId |-> q.client_id,
     redirectUri |-> q.redirect_uri,
     state |-> state,
     codeChallenge |-> IF Falsy(q.code_challenge) THEN Null ELSE q.code_challenge,
     codeChallengeMethod |->
         IF Falsy(q.code_challenge_method) THEN Null ELSE q.code_challenge_method,
     scope |-> LINKEDIN_SCOPES,
     createdAt |-> t]

(* the value of transactions.set(txnId, {...}), lines 239-247 *)
NewTransaction(q, state, t) ==
    [clientId |-> q.client_id,
     redirectUri |-> q.redirect_uri,
     state |-> state,
     codeChallenge |-> IF Falsy(q.code_challenge) THEN Null ELSE q.code_challenge,
     codeChallengeMethod |->
         IF Falsy(q.code_challenge_method) THEN Null ELSE q.code_challenge_method,
     scope |-> IF q.scope = Null THEN LINKEDIN_SCOPES ELSE SplitScope(q.scope),
     createdAt |-> t]

(* mutant of UpstreamRedirect: a PKCE parameter is forwarded upstream *)
UpstreamRedirectWithPkce(txnId) ==
    [uri |-> LINKEDIN_AUTH_ENDPOINT,
     response_type |-> "code",
     client_id |-> UPSTREAM_CLIENT_ID,
     redirect_uri |-> CALLBACK_URL,
     state |-> txnId,
     scope |-> SCOPE_STRING,
     code_challenge_method |-> "S256"]

(* the Location of the redirect to the upstream provider, lines 250-255 *)
UpstreamRedirect(txnId) ==
    [uri |-> LINKEDIN_AUTH_ENDPOINT,
     response_type |-> "code",
     client_id |-> UPSTREAM_CLIENT_ID,
     redirect_uri |-> CALLBACK_URL,
     state |-> txnId,
     scope |-> SCOPE_STRING]

(* mutant of AuthorizeInvalid: the client must have been registered *)
AuthorizeInvalidUnregistered(q) ==
    \/ Falsy(q.client_id) \/ Falsy(q.redirect_uri) \/ q.response_type # "code"
    \/ q.client_id \notin DOMAIN registeredClients

(* mutant of AuthorizeInvalid: response_type is not looked at *)
AuthorizeInvalidAnyType(q) ==
    Falsy(q.client_id) \/ Falsy(q.redirect_uri)

(* !clientId || !redirectUri || responseType !== "code" *)
AuthorizeInvalid(q) ==
    Falsy(q.client_id) \/ Falsy(q.redirect_uri) \/ q.response_type # "code"

(* mutant of NewTxnId: the same identifier for every transaction *)
NewTxnIdConstant(n) == RandomId("t", 1)

(* crypto.randomBytes(32).toString("base64url") for the n-th transaction *)
NewTxnId(n) == RandomId("t", n)

Authorize(q) ==
    IF AuthorizeInvalid(q)
    THEN /\ resp' = JsonError("authorize", 0, Null, 400, "invalid_request",
                              "Missing required parameters")
         /\ UNCHANGED <<clock, stores, inflight, counters, history, harness>>
    ELSE /\ ntxn < MaxTxn
         /\ LET txnId == NewTxnId(ntxn + 1)
                state == IF Falsy(q.state) THEN RandomId("s", ntxn + 1) ELSE q.state
            IN  /\ transactions' = MapSet(transactions, txnId, NewTransaction(q, state, now))
                /\ resp' = Redirect("authorize", 0, Null, UpstreamRedirect(txnId))
         /\ ntxn' = ntxn + 1
         /\ UNCHANGED <<clock, authCodes, registeredClients, tokenStore, inflight,
                        ncb, ntok, nreg, history, harness>>

-----------------------------------------------------------------------------
(* GET /oauth/callback                                                      *)

(* transactions.get(txnId) finds an entry *)
TxnFound(txns, txnId) == txnId \in DOMAIN txns

(* mutant of CallbackCheck: a callback without code is let through *)
CallbackCheckNoCode(q, txns) ==
    IF ~Falsy(q.error) THEN "error"
    ELSE IF Falsy(q.state) THEN "missing"
    ELSE IF ~TxnFound(txns, q.state) THEN "unknown"
    ELSE "ok"

(* mutant of CallbackCheck: the error parameter is looked at after the others *)
CallbackCheckErrorLast(q, txns) ==
    IF Falsy(q.code) \/ Falsy(q.state) THEN "missing"
    ELSE IF ~TxnFound(txns, q.state) THEN "unknown"
    ELSE IF ~Falsy(q.error) THEN "error"
    ELSE "ok"

(* the first of the checks of lines 271-283 that refuses the request *)
CallbackCheck(q, txns) ==
    IF ~Falsy(q.error) THEN "error"
    ELSE IF Falsy(q.code) \/ Falsy(q.state) THEN "missing"
    ELSE IF ~TxnFound(txns, q.state) THEN "unknown"
    ELSE "ok"

(* the handler up to `await exchangeLinkedInCode(...)` *)
CallbackStart(q) ==
    IF CallbackCheck(q, transactions) = "error"
    THEN /\ resp' = JsonError("callback", 0, q.state, 400, q.error, q.error_description)
         /\ UNCHANGED <<clock, stores, inflight, counters, history, harness>>
    ELSE IF CallbackCheck(q, transactions) = "missing"
    THEN /\ resp' = JsonError("callback", 0, q.state, 400, "invalid_request",
                              "Missing code or state")
         /\ UNCHANGED <<clock, stores, inflight, counters, history, harness>>
    ELSE IF CallbackCheck(q, transactions) = "unknown"
    THEN /\ resp' = JsonError("callback", 0, q.state, 400, "invalid_request",
                              "Invalid or expired state")
         /\ UNCHANGED <<clock, stores, inflight, counters, history, harness>>
    ELSE /\ ncb < MaxCallbacks
         /\ ncb' = ncb + 1
         /\ callbacks' = callbacks \cup
                {[id |-> ncb + 1, code |-> q.code, txnId |-> q.state,
                  txn |-> transactions[q.state], redirectUri |-> CALLBACK_URL,
                  late |-> now - transactions[q.state].createdAt > TXN_TTL,
                  retry |-> q.state \in failedTxns]}
         /\ resp' = NoResponse
         /\ UNCHANGED <<clock, stores, tokenReqs, ntxn, ntok, nreg, history, harness>>

(* mutant of NewAuthCode: the transaction is looked up again after the exchange *)
NewAuthCodeFromStore(txn, linkedInTokens, t) ==
    [clientId |-> IF \E k \in DOMAIN transactions : transactions[k] = txn
                  THEN txn.clientId ELSE Null,
     redirectUri |-> txn.redirectUri,
     linkedInTokens |-> linkedInTokens,
     createdAt |-> t,
     used |-> FALSE]

(* the authorization code stored by a successful callback *)
NewAuthCode(txn, linkedInTokens, t) ==
    [clientId |-> txn.clientId,
     redirectUri |-> txn.redirectUri,
     linkedInTokens |-> linkedInTokens,
     createdAt |-> t,
     used |-> FALSE]

(* mutant of CallbackCleanup: transactions.clear() *)
CallbackCleanupAll(txns, txnId) == EmptyMap

(* mutant of CallbackCleanup: the transaction is left in the store *)
CallbackCleanupNone(txns, txnId) == txns

(* transactions.delete(txnId) *)
CallbackCleanup(txns, txnId) == MapDelete(txns, txnId)

(* mutant of ClientRedirect: the state parameter is not the client's own *)
ClientRedirectWrongState(txn, ourCode) ==
    [uri |-> txn.redirectUri, code |-> ourCode, state |-> txn.clientId]

(* the Location of the redirect back to the MCP client *)
ClientRedirect(txn, ourCode) ==
    [uri |-> txn.redirectUri, code |-> ourCode, state |-> txn.state]

ClientErrorRedirect(txn, err) ==
    [uri |-> txn.redirectUri, error |-> "server_error", error_description |-> err,
     state |-> txn.state]

(* the handler from the return of the exchange to its end *)
CallbackResume(cb, answer) ==
    /\ callbacks' = callbacks \ {cb}
    /\ IF answer.ok
       THEN LET linkedInTokens == exchangeLinkedInCode(answer, now)
                ourCode == RandomId("c", Cardinality(DOMAIN mintedBy) + 1)
            IN  /\ authCodes' = MapSet(authCodes, ourCode,
                                       NewAuthCode(cb.txn, linkedInTokens, now))
                /\ transactions' = CallbackCleanup(transactions, cb.txnId)
                /\ mintedBy' = MapSet(mintedBy, ourCode,
                                      [cb |-> cb.id, txnId |-> cb.txnId,
                                       late |-> cb.late,
                                       retry |-> cb.retry,
                                       orphan |-> ~TxnFound(transactions, cb.txnId),
                                       linkedInTokens |-> linkedInTokens])
                /\ resp' = IF IsUrl(cb.txn.redirectUri)
                           THEN Redirect("callback", cb.id, cb.txnId,
                                         ClientRedirect(cb.txn, ourCode))
                           ELSE Threw("callback", cb.id, cb.txnId)
                /\ UNCHANGED failedTxns
       ELSE /\ resp' = IF IsUrl(cb.txn.redirectUri)
                       THEN Redirect("callback", cb.id, cb.txnId,
                                     ClientErrorRedirect(cb.txn, answer.error_description))
                       ELSE Threw("callback", cb.id, cb.txnId)
            /\ failedTxns' = failedTxns \cup {cb.txnId}
            /\ UNCHANGED <<transactions, authCodes, mintedBy>>
    /\ UNCHANGED <<clock, registeredClients, tokenStore, tokenReqs, counters, issued,
                   harness>>

-----------------------------------------------------------------------------
(* POST /oauth/token                                                        *)

(* the handler up to `await readBody()` *)
TokenStart(body) ==
    /\ ntok < MaxTokenReqs
    /\ ntok' = ntok + 1
    /\ tokenReqs' = tokenReqs \cup
           {[id |-> ntok + 1, grant_type |-> body.grant_type, code |-> body.code,
             redirect_uri |-> body.redirect_uri, code_verifier |-> body.code_verifier,
             client_id |-> body.client_id]}
    /\ resp' = NoResponse
    /\ UNCHANGED <<clock, stores, callbacks, ntxn, ncb, nreg, history, harness>>

(* mutant of GrantSupported: the grant type is not looked at *)
GrantSupportedAny(grantType) == TRUE

(* mutant of GrantSupported: the advertised refresh_token grant is let through *)
GrantSupportedAdvertised(grantType) ==
    grantType \in {"authorization_code", "refresh_token"}

(* grantType === "authorization_code" *)
GrantSupported(grantType) == grantType = "authorization_code"

(* mutant of Redeemable: the redirect_uri of the request must be the code's *)
RedeemableForRedirectUri(codes, code) ==
    /\ code \in DOMAIN codes
    /\ ~codes[code].used
    /\ \A tr \in tokenReqs : tr.code = code => tr.redirect_uri = codes[code].redirectUri

(* mutant of Redeemable: no code is redeemed while an upstream exchange is pending *)
RedeemableWhenIdle(codes, code) ==
    /\ callbacks = {}
    /\ code \in DOMAIN codes
    /\ ~codes[code].used

(* mutant of Redeemable: the used flag is not checked *)
RedeemableIgnoringUsed(codes, code) == code \in DOMAIN codes

(* the checks of lines 340-347: the code resolves to an entry not yet used *)
Redeemable(codes, code) == code \in DOMAIN codes /\ ~codes[code].used

(* mutant of MarkUsed: the redeemed code is deleted *)
MarkUsedDeleting(codes, code) == MapDelete(codes, code)

(* mutant of MarkUsed: the flag is set on a copy that is not stored *)
MarkUsedNowhere(codes, code) == codes

(* authCode.used = true; authCodes.set(code, authCode) *)
MarkUsed(codes, code) == [codes EXCEPT ![code].used = TRUE]

(* mutant of SessionFor: the bundle of whichever code comes first in the store *)
SessionForFirstCode(codes, code) ==
    codes[CHOOSE c \in DOMAIN codes : \A d \in DOMAIN codes : mintedBy[c].cb <= mintedBy[d].cb].linkedInTokens

(* the bundle stored under the new token's subject *)
SessionFor(codes, code) == codes[code].linkedInTokens

(* the handler from the end of the body to its end *)
TokenResume(tr) ==
    /\ tokenReqs' = tokenReqs \ {tr}
    /\ IF ~GrantSupported(tr.grant_type)
       THEN /\ resp' = JsonError("token", tr.id, tr.code, 400, "unsupported_grant_type", "")
            /\ UNCHANGED <<authCodes, tokenStore, issued>>
       ELSE IF Falsy(tr.code)
       THEN /\ resp' = JsonError("token", tr.id, tr.code, 400, "invalid_request",
                                 "Missing code")
            /\ UNCHANGED <<authCodes, tokenStore, issued>>
       ELSE IF tr.code \notin DOMAIN authCodes
       THEN /\ resp' = JsonError("token", tr.id, tr.code, 400, "invalid_grant",
                                 "Invalid or expired code")
            /\ UNCHANGED <<authCodes, tokenStore, issued>>
       ELSE IF ~Redeemable(authCodes, tr.code)
       THEN /\ resp' = JsonError("token", tr.id, tr.code, 400, "invalid_grant",
                                 "Code already used")
            /\ UNCHANGED <<authCodes, tokenStore, issued>>
       ELSE LET n == Cardinality(issued) + 1
                jti == RandomId("j", n)
                accessToken ==
                    createJWT([sub |-> jti, scope |-> SCOPE_STRING], TOKEN_TTL,
                              now, RandomId("k", n))
            IN  /\ authCodes' = MarkUsed(authCodes, tr.code)
                /\ tokenStore' =
                       MapSet(tokenStore, jti,
                              [linkedInTokens |-> SessionFor(authCodes, tr.code),
                               createdAt |-> now])
                /\ issued' = issued \cup
                       {[req |-> tr.id, code |-> tr.code, sub |-> jti,
                         token |-> accessToken,
                         sent |-> [redirect_uri |-> tr.redirect_uri,
                                   code_verifier |-> tr.code_verifier,
                                   client_id |-> tr.client_id],
                         late |-> now - authCodes[tr.code].createdAt > CODE_TTL]}
                /\ resp' = [NoResponse EXCEPT !.ep = "token", !.id = tr.id,
                                              !.key = tr.code, !.status = 200,
                                              !.token = accessToken]
    /\ UNCHANGED <<clock, transactions, registeredClients, callbacks, counters,
                   mintedBy, failedTxns, harness>>

-----------------------------------------------------------------------------
(* authenticate hook of the tool-serving layer                              *)

(* the Authorization headers that carry a token the token endpoint returned *)
FlowHeaders == {Header("Bearer ", i.token) : i \in issued}

Authenticate(h) ==
    /\ resp' = [NoResponse EXCEPT !.ep = "authenticate",
                                  !.token = IF h.present THEN h.rest ELSE <<>>,
                                  !.session = authenticate(h, tokenStore, now)]
    /\ UNCHANGED <<clock, stores, inflight, counters, history, harness>>

-----------------------------------------------------------------------------
(* setInterval(..., 60000): the reaper                                      *)

(* mutant of Sweep: an entry is removed as soon as its age reaches the TTL *)
SweepAtTtl(m, ttl, t) ==
    [k \in {x \in DOMAIN m : ~(t - m[x].createdAt >= ttl)} |-> m[k]]

(* mutant of Sweep: entries that were looked at are never removed *)
SweepNothing(m, ttl, t) == m

(* mutant of Sweep: an entry is kept for a second past its TTL *)
SweepLenient(m, ttl, t) ==
    [k \in {x \in DOMAIN m : ~(t - m[x].createdAt > ttl + MS_PER_SEC)} |-> m[k]]

(* for (const [k, v] of m.entries()) if (t - v.createdAt > ttl) m.delete(k) *)
Sweep(m, ttl, t) ==
    [k \in {x \in DOMAIN m : ~(t - m[x].createdAt > ttl)} |-> m[k]]

ReaperTick ==
    /\ now - lastTick >= REAPER_INTERVAL
    /\ lastTick' = now
    /\ transactions' = Sweep(transactions, TXN_TTL, now)
    /\ authCodes' = Sweep(authCodes, CODE_TTL, now)
    /\ tokenStore' = Sweep(tokenStore, SESSION_TTL, now)
    /\ resp' = NoResponse
    /\ UNCHANGED <<now, registeredClients, inflight, counters, history, harness>>

-----------------------------------------------------------------------------
(* The clock moves to a later instant of a grid placed around the TTLs      *)

TimePoints == {0, CODE_TTL + 300, TXN_TTL + 300}

Advance(t) ==
    /\ t > now
    /\ now' = t
    /\ resp' = NoResponse
    /\ UNCHANGED <<lastTick, stores, inflight, counters, history, harness>>

-----------------------------------------------------------------------------

Next ==
    \/ \E q \in FlowAuthorizeRequests : Authorize(q)
    \/ \E q \in FlowCallbackQueries : CallbackStart(q)
    \/ \E cb \in callbacks : \E answer \in UpstreamAnswers(cb.code) : CallbackResume(cb, answer)
    \/ \E body \in FlowTokenBodies : TokenStart(body)
    \/ \E tr \in tokenReqs : TokenResume(tr)
    \/ \E h \in FlowHeaders : Authenticate(h)
    \/ ReaperTick
    \/ \E t \in TimePoints : Advance(t)

Spec == Init /\ [][Next]_vars

-----------------------------------------------------------------------------
(* The same program with the clock moving over a grid placed around the     *)
(* three TTLs of the reaper, up to and past the lifetime of a session        *)

TtlTimePoints == {0, CODE_TTL + 300, SESSION_TTL, SESSION_TTL + 300}

NextTTL ==
    \/ \E q \in FlowAuthorizeRequests : Authorize(q)
    \/ \E q \in FlowCallbackQueries : CallbackStart(q)
    \/ \E cb \in callbacks : \E answer \in UpstreamAnswers(cb.code) : CallbackResume(cb, answer)
    \/ \E body \in FlowTokenBodies : TokenStart(body)
    \/ \E tr \in tokenReqs : TokenResume(tr)
    \/ \E h \in FlowHeaders : Authenticate(h)
    \/ ReaperTick
    \/ \E t \in TtlTimePoints : Advance(t)

SpecTTL == Init /\ [][NextTTL]_vars

-----------------------------------------------------------------------------
(* The same program receiving every authorize request and every callback of *)
(* the request sets above, the refused ones included                        *)

ProbeTimePoints == {0, CODE_TTL + 300}

NextProbe ==
    \/ \E q \in AuthorizeRequests : Authorize(q)
    \/ \E q \in CallbackQueries : CallbackStart(q)
    \/ \E cb \in callbacks : \E answer \in UpstreamAnswers(cb.code) : CallbackResume(cb, answer)
    \/ \E body \in FlowTokenBodies : TokenStart(body)
    \/ \E tr \in tokenReqs : TokenResume(tr)
    \/ \E h \in FlowHeaders : Authenticate(h)
    \/ ReaperTick
    \/ \E t \in ProbeTimePoints : Advance(t)

SpecProbe == Init /\ [][NextProbe]_vars

(* The same program receiving every token request of the request sets above, *)
(* the refused ones included                                                 *)

NextTokenProbe ==
    \/ \E q \in FlowAuthorizeRequests : Authorize(q)
    \/ \E q \in FlowCallbackQueries : CallbackStart(q)
    \/ \E cb \in callbacks : \E answer \in UpstreamAnswers(cb.code) : CallbackResume(cb, answer)
    \/ \E body \in TokenBodies : TokenStart(body)
    \/ \E tr \in tokenReqs : TokenResume(tr)
    \/ \E h \in FlowHeaders : Authenticate(h)
    \/ ReaperTick
    \/ \E t \in ProbeTimePoints : Advance(t)

SpecTokenProbe == Init /\ [][NextTokenProbe]_vars

-----------------------------------------------------------------------------
(* The same program with clients that send redirect_uri, code_verifier and  *)
(* client_id to the token endpoint                                          *)

NextPkce ==
    \/ \E q \in FlowAuthorizeRequests : Authorize(q)
    \/ \E q \in FlowCallbackQueries : CallbackStart(q)
    \/ \E cb \in callbacks : \E answer \in UpstreamAnswers(cb.code) : CallbackResume(cb, answer)
    \/ \E body \in PkceTokenBodies : TokenStart(body)
    \/ \E tr \in tokenReqs : TokenResume(tr)
    \/ \E h \in FlowHeaders : Authenticate(h)
    \/ ReaperTick
    \/ \E t \in ProbeTimePoints : Advance(t)

SpecPkce == Init /\ [][NextPkce]_vars

-----------------------------------------------------------------------------
(* The same program with the registration endpoint in use, the clock moving *)
(* past the longest TTL of the reaper                                       *)

RegTimePoints == {0, SESSION_TTL + 300}

NextReg ==
    \/ \E body \in RegisterBodies : Register(body)
    \/ \E q \in FlowAuthorizeRequests : Authorize(q)
    \/ \E q \in FlowCallbackQueries : CallbackStart(q)
    \/ \E cb \in callbacks : \E answer \in UpstreamAnswers(cb.code) : CallbackResume(cb, answer)
    \/ \E body \in FlowTokenBodies : TokenStart(body)
    \/ \E tr \in tokenReqs : TokenResume(tr)
    \/ \E h \in FlowHeaders : Authenticate(h)
    \/ ReaperTick
    \/ \E t \in RegTimePoints : Advance(t)

SpecReg == Init /\ [][NextReg]_vars

-----------------------------------------------------------------------------
(* The same program under fair scheduling: the setInterval callback runs    *)
(* whenever it is due and the clock keeps advancing.  Requests arrive while *)
(* the clock is at its first instant, so that every entry is followed by    *)
(* instants of the grid later than its TTL.                                 *)

LiveTimePoints == {0, TXN_TTL + 300, SESSION_TTL + 300}

NextLive ==
    \/ now = 0 /\ \E q \in FlowAuthorizeRequests : Authorize(q)
    \/ now = 0 /\ \E q \in FlowCallbackQueries : CallbackStart(q)
    \/ now = 0 /\ \E cb \in callbacks : \E answer \in UpstreamAnswers(cb.code) :
                      CallbackResume(cb, answer)
    \/ now = 0 /\ \E body \in FlowTokenBodies : TokenStart(body)
    \/ now = 0 /\ \E tr \in tokenReqs : TokenResume(tr)
    \/ \E h \in FlowHeaders : Authenticate(h)
    \/ ReaperTick
    \/ \E t \in LiveTimePoints : Advance(t)

SpecLive ==
    /\ Init
    /\ [][NextLive]_vars
    /\ WF_vars(ReaperTick)
    /\ WF_vars(\E t \in LiveTimePoints : Advance(t))

-----------------------------------------------------------------------------
(* The same program with registered and unregistered clients, the clock     *)
(* stopping at each TTL of the reaper exactly and just past the longest.    *)
(* Requests arrive while the clock is at its first instant.                 *)

SweepTimePoints == {0, CODE_TTL, TXN_TTL, SESSION_TTL, SESSION_TTL + 300}

NextSweep ==
    \/ now = 0 /\ \E body \in RegisterBodies : Register(body)
    \/ now = 0 /\ \E q \in RegAuthorizeRequests : Authorize(q)
    \/ now = 0 /\ \E q \in FlowCallbackQueries : CallbackStart(q)
    \/ now = 0 /\ \E cb \in callbacks : \E answer \in UpstreamAnswers(cb.code) :
                      CallbackResume(cb, answer)
    \/ now = 0 /\ \E body \in FlowTokenBodies : TokenStart(body)
    \/ now = 0 /\ \E tr \in tokenReqs : TokenResume(tr)
    \/ \E h \in FlowHeaders : Authenticate(h)
    \/ ReaperTick
    \/ \E t \in SweepTimePoints : Advance(t)

SpecSweep == Init /\ [][NextSweep]_vars

-----------------------------------------------------------------------------
(* The request listener as a whole: the chain of tests on url.pathname and  *)
(* method, lines 174-386. A path is the sequence of the pieces of its text. *)

WELL_KNOWN == <<"/.well-known/oauth-authorization-server">>

(* pathname.startsWith(prefix) *)
StartsWith(path, prefix) ==
    /\ Len(path) >= Len(prefix)
    /\ SubSeq(path, 1, Len(prefix)) = prefix

(* the branch of the listener that takes the request, in the order of the code *)
Route(path, method) ==
    IF method = "OPTIONS" THEN "preflight"
    ELSE IF path = WELL_KNOWN THEN "discovery"
    ELSE IF path = <<"/oauth/register">> /\ method = "POST" THEN "register"
    ELSE IF path = <<"/oauth/authorize">> THEN "authorize"
    ELSE IF path = <<"/oauth/callback">> THEN "callback"
    ELSE IF path = <<"/oauth/token">> /\ method = "POST" THEN "token"
    ELSE IF path = <<"/health">> THEN "health"
    ELSE IF StartsWith(path, <<"/mcp">>) THEN "mcp"
    ELSE "not_found"

(* the branches that answer at once, without reading the stores *)
StatelessRoutes == {"preflight", "discovery", "health", "mcp", "not_found"}

HttpPaths ==
    { WELL_KNOWN, <<"/health">>, <<"/mcp">>, <<"/mcp", "/messages">>, <<"/mcp", "x">>,
      <<"/oauth/register">>, <<"/oauth/authorize">>, <<"/oauth/callback">>,
      <<"/oauth/token">>, <<"/">>, <<"/oauth", "/mcp">> }

HttpMethods == {"GET", "POST", "OPTIONS", "DELETE"}

HttpRequests == [path : HttpPaths, method : HttpMethods]

(* what such a branch writes before the listener returns *)
RouteResponse(route) ==
    IF route = "preflight" THEN [NoResponse EXCEPT !.ep = route, !.status = 204]
    ELSE IF route \in {"discovery", "health"} THEN [NoResponse EXCEPT !.ep = route, !.status = 200]
    ELSE IF route = "mcp" THEN [NoResponse EXCEPT !.ep = route]
    ELSE JsonError(route, 0, Null, 404, "not_found", "")

(* a request taken by one of the branches that answer at once *)
HttpRequest(r) ==
    /\ Route(r.path, r.method) \in StatelessRoutes
    /\ resp' = RouteResponse(Route(r.path, r.method))
    /\ UNCHANGED <<clock, stores, inflight, counters, history, harness>>

RouteTimePoints == {0, CODE_TTL + 300}

NextRoute ==
    \/ \E r \in HttpRequests : HttpRequest(r)
    \/ \E q \in FlowAuthorizeRequests : Authorize(q)
    \/ \E q \in FlowCallbackQueries : CallbackStart(q)
    \/ \E cb \in callbacks : \E answer \in UpstreamAnswers(cb.code) : CallbackResume(cb, answer)
    \/ \E body \in FlowTokenBodies : TokenStart(body)
    \/ \E tr \in tokenReqs : TokenResume(tr)
    \/ ReaperTick
    \/ \E t \in RouteTimePoints : Advance(t)

SpecRoute == Init /\ [][NextRoute]_vars

-----------------------------------------------------------------------------
(* Tool calls: execute() builds a LinkedInClient from the session and the   *)
(* client sends one request through makeRequest                              *)
(* (src/src/client/linkedin-marketing-client.ts, class LinkedInClient).      *)
(* makeRequest waits in refreshAccessToken and in fetch: its positions are   *)
(* "start", "refreshFirst", "fetch", "refreshRetry", "fetchRetry", "done".   *)

DEFAULT_EXPIRY == 3600000

(* new LinkedInClient(config) at time t *)
LinkedInClient(config, t) ==
    [NoClient EXCEPT !.accessToken = config.accessToken,
                     !.refreshToken = config.refreshToken,
                     !.authenticated = ~Falsy(config.accessToken),
                     !.tokenExpiry = IF ~Falsy(config.accessToken)
                                     THEN t + DEFAULT_EXPIRY ELSE 0]

(* mutant of createLinkedInClientFromSession: the client keeps its fields in *)
(* the session object it was given                                           *)
createLinkedInClientOnSession(session, jti, t) ==
    [LinkedInClient([accessToken |-> session.accessToken,
                     refreshToken |-> session.refreshToken], t)
       EXCEPT !.ref = jti]

(* createLinkedInClientFromSession(session), session being the bundle stored *)
(* under jti: the two strings are copied into an object of the client's own  *)
createLinkedInClientFromSession(session, jti, t) ==
    LinkedInClient([accessToken |-> session.accessToken,
                    refreshToken |-> session.refreshToken], t)

(* execute(): `if (!session?.accessToken) throw`, then the client is built *)
ToolCall(h) ==
    /\ client.pc \in {"none", "done"}
    /\ LET session == authenticate(h, tokenStore, now)
       IN  /\ client' =
                 IF session = Undefined \/ Falsy(session.accessToken)
                 THEN [NoClient EXCEPT !.pc = "done", !.error = "Not authenticated"]
                 ELSE [createLinkedInClientFromSession(
                           session, verifyJWT(h.rest, now).payload.sub, now)
                         EXCEPT !.pc = "start"]
           /\ resp' = [NoResponse EXCEPT !.ep = "tool", !.session = session]
    /\ UNCHANGED <<clock, stores, inflight, counters, history, jwtIn, jwtTok>>

(* `Date.now() >= this.tokenExpiry && this.refreshToken` *)
NeedsRefresh(c, t) == t >= c.tokenExpiry /\ ~Falsy(c.refreshToken)

(* `if (!this.accessToken) throw`, else the request is sent *)
SendOrThrow(c) ==
    IF Falsy(c.accessToken)
    THEN [c EXCEPT !.pc = "done", !.error = "No access token available"]
    ELSE [c EXCEPT !.pc = "fetch", !.sends = @ + 1]

(* makeRequest up to its first await *)
MakeRequestStart ==
    /\ client.pc = "start"
    /\ client' = IF NeedsRefresh(client, now)
                 THEN [client EXCEPT !.pc = "refreshFirst", !.refreshes = @ + 1,
                                     !.pre = TRUE]
                 ELSE SendOrThrow(client)
    /\ resp' = NoResponse
    /\ UNCHANGED <<clock, stores, inflight, counters, history, jwtIn, jwtTok>>

(* a later makeRequest on the same client *)
MakeRequestAgain ==
    /\ client.pc = "done"
    /\ client.authenticated
    /\ client' = [client EXCEPT !.pc = "start", !.refreshes = 0, !.sends = 0,
                                !.pre = FALSE, !.status = 0, !.error = ""]
    /\ resp' = NoResponse
    /\ UNCHANGED <<clock, stores, inflight, counters, history, jwtIn, jwtTok>>

(* what the upstream token endpoint answers to a refresh *)
RefreshAnswers ==
    { [ok |-> FALSE],
      [ok |-> TRUE, access_token |-> "at:refreshed", refresh_token |-> Null,
       expires_in |-> 7200],
      [ok |-> TRUE, access_token |-> "at:refreshed", refresh_token |-> "rt:rotated",
       expires_in |-> 0],
      [ok |-> TRUE, access_token |-> Null, refresh_token |-> Null, expires_in |-> 7200] }

(* the assignments at the end of refreshAccessToken *)
Refreshed(c, data, t) ==
    [c EXCEPT !.accessToken = data.access_token,
              !.refreshToken = IF ~Falsy(data.refresh_token) THEN data.refresh_token ELSE @,
              !.tokenExpiry = t + data.expires_in * MS_PER_SEC]

(* the object the client's fields live in, after those assignments *)
WrittenThrough(store, c) ==
    IF c.ref \in DOMAIN store
    THEN [store EXCEPT ![c.ref].linkedInTokens =
                          [@ EXCEPT !.accessToken = c.accessToken,
                                    !.refreshToken = c.refreshToken]]
    ELSE store

(* refreshAccessToken returns or throws, and makeRequest goes on *)
RefreshReturn(answer) ==
    /\ client.pc \in {"refreshFirst", "refreshRetry"}
    /\ IF ~answer.ok
       THEN /\ client' = [client EXCEPT !.pc = "done", !.error = "Token refresh failed"]
            /\ UNCHANGED tokenStore
       ELSE LET c == Refreshed(client, answer, now)
            IN  /\ client' = IF client.pc = "refreshFirst"
                             THEN SendOrThrow(c)
                             ELSE [c EXCEPT !.pc = "fetchRetry", !.sends = @ + 1]
                /\ tokenStore' = WrittenThrough(tokenStore, c)
    /\ resp' = NoResponse
    /\ UNCHANGED <<clock, transactions, authCodes, registeredClients, inflight, counters,
                   history, jwtIn, jwtTok>>

(* mutant of AfterFetch: every 401 is answered by a refresh and a resend *)
AfterFetchUntilAuthorized(c, status) ==
    IF status = 401 /\ ~Falsy(c.refreshToken) THEN "refreshRetry" ELSE "done"

(* where makeRequest goes when a fetch returns: the test                    *)
(* `response.status === 401 && this.refreshToken` is made on the first      *)
(* response only, the second is returned as it is                           *)
AfterFetch(c, status) ==
    IF c.pc = "fetch" /\ status = 401 /\ ~Falsy(c.refreshToken)
    THEN "refreshRetry" ELSE "done"

HttpStatuses == {200, 401, 500}

(* a fetch of makeRequest returns a response with this status *)
FetchReturn(status) ==
    /\ client.pc \in {"fetch", "fetchRetry"}
    /\ client' = IF AfterFetch(client, status) = "refreshRetry"
                 THEN [client EXCEPT !.pc = "refreshRetry", !.refreshes = @ + 1]
                 ELSE [client EXCEPT !.pc = "done", !.status = status]
    /\ resp' = NoResponse
    /\ UNCHANGED <<clock, stores, inflight, counters, history, jwtIn, jwtTok>>

(* tool calls after one authorization flow, the clock stopping at the       *)
(* expiry the client's constructor assumes                                  *)
ClientTimePoints == {0, DEFAULT_EXPIRY}

NextClient ==
    \/ \E q \in FlowAuthorizeRequests : ntxn = 0 /\ Authorize(q)
    \/ \E q \in FlowCallbackQueries : ncb = 0 /\ CallbackStart(q)
    \/ \E cb \in callbacks : \E answer \in UpstreamAnswers(cb.code) : CallbackResume(cb, answer)
    \/ \E body \in FlowTokenBodies : ntok = 0 /\ TokenStart(body)
    \/ \E tr \in tokenReqs : TokenResume(tr)
    \/ \E h \in FlowHeaders : Authenticate(h)
    \/ \E h \in FlowHeaders \cup {NoHeader} : ToolCall(h)
    \/ MakeRequestStart
    \/ MakeRequestAgain
    \/ \E answer \in RefreshAnswers : RefreshReturn(answer)
    \/ \E status \in HttpStatuses : FetchReturn(status)
    \/ ReaperTick
    \/ \E t \in ClientTimePoints : Advance(t)

SpecClient == Init /\ [][NextClient]_vars

-----------------------------------------------------------------------------
(* Codec harness: createJWT, verifyJWT and authenticate applied to inputs   *)
(* drawn from bounded sets.  jwtIn is the input of the last createJWT call, *)
(* jwtTok the token under test (the created one, or a variant of it made    *)
(* without the server's secret).                                            *)

JwtClaims ==
    { [sub |-> "j1", scope |-> SCOPE_STRING],
      [sub |-> "j2"],
      [sub |-> ""],
      [scope |-> "openid"],
      [sub |-> "j1", exp |-> 1, iat |-> 7, jti |-> "mine"] }

JwtTtls == {1, 2, TOKEN_TTL}

JwtTimePoints == {0, 300, 1000, 1300, 2000, 3000, 3600300, 3601000}

HarnessBundle(name) ==
    [accessToken |-> name, refreshToken |-> Null, expiresAt |-> 7200000,
     scope |-> <<"openid">>]

(* the session stores the authenticator is tried against *)
JwtStores ==
    { EmptyMap,
      [k \in {"j1"} |-> [linkedInTokens |-> HarnessBundle("at:j1"), createdAt |-> 0]],
      [k \in {"j1", "j2"} |->
          [linkedInTokens |-> HarnessBundle("at:" \o k), createdAt |-> 0]] }

InitJWT ==
    /\ now = 0
    /\ lastTick = 0
    /\ transactions = EmptyMap
    /\ authCodes = EmptyMap
    /\ registeredClients = EmptyMap
    /\ tokenStore \in JwtStores
    /\ callbacks = {}
    /\ tokenReqs = {}
    /\ ntxn = 0
    /\ ncb = 0
    /\ ntok = 0
    /\ nreg = 0
    /\ resp = NoResponse
    /\ mintedBy = EmptyMap
    /\ issued = {}
    /\ failedTxns = {}
    /\ jwtIn = NoJwt
    /\ jwtTok = <<>>
    /\ client = NoClient

JwtCreate(claims, ttl) ==
    /\ jwtIn' = [made |-> TRUE, claims |-> claims, expiresIn |-> ttl, at |-> now,
                 rnd |-> "k1"]
    /\ jwtTok' = createJWT(claims, ttl, now, "k1")
    /\ resp' = NoResponse
    /\ UNCHANGED <<clock, stores, inflight, counters, history, client>>

(* the token createJWT returned for jwtIn *)
JwtOriginal == createJWT(jwtIn.claims, jwtIn.expiresIn, jwtIn.at, jwtIn.rnd)

(* a payload segment a holder of the token can write: other claims, later expiry *)
OtherPayload(token) ==
    Encode([JsonParse(token[2]) EXCEPT !.exp = @ + TOKEN_TTL])

TamperKinds ==
    {"sig-junk", "sig-other-key", "payload", "payload-junk", "header", "forged",
     "append", "drop-sig", "drop-two"}

Tamper(token, kind) ==
    CASE kind = "sig-junk" -> <<token[1], token[2], JunkSeg>>
      [] kind = "sig-other-key" ->
            <<token[1], token[2], Hmac("attacker-secret", token[1], token[2])>>
      [] kind = "payload" -> <<token[1], OtherPayload(token), token[3]>>
      [] kind = "payload-junk" -> <<token[1], JunkSeg, token[3]>>
      [] kind = "header" -> <<Encode([alg |-> "none", typ |-> "JWT"]), token[2], token[3]>>
      [] kind = "forged" ->
            <<token[1], OtherPayload(token),
              Hmac("attacker-secret", token[1], OtherPayload(token))>>
      [] kind = "append" -> Append(token, JunkSeg)
      [] kind = "drop-sig" -> <<token[1], token[2]>>
      [] kind = "drop-two" -> <<token[1]>>

JwtTamper(kind) ==
    /\ jwtIn.made
    /\ jwtTok = JwtOriginal
    /\ jwtTok' = Tamper(jwtTok, kind)
    /\ resp' = NoResponse
    /\ UNCHANGED <<clock, stores, inflight, counters, history, jwtIn, client>>

JwtVerify ==
    /\ jwtIn.made
    /\ resp' = [NoResponse EXCEPT !.ep = "verifyJWT", !.token = jwtTok,
                                  !.result = verifyJWT(jwtTok, now)]
    /\ UNCHANGED <<clock, stores, inflight, counters, history, harness>>

HarnessHeaders ==
    {NoHeader, Header("Bearer ", jwtTok), Header("bearer ", jwtTok),
     Header("Basic  ", jwtTok)}

JwtAuthenticate(h) ==
    /\ jwtIn.made
    /\ resp' = [NoResponse EXCEPT !.ep = "authenticate",
                                  !.key = IF h.present THEN h.prefix ELSE Null,
                                  !.token = IF h.present THEN h.rest ELSE <<>>,
                                  !.session = authenticate(h, tokenStore, now)]
    /\ UNCHANGED <<clock, stores, inflight, counters, history, harness>>

JwtAdvance(t) ==
    /\ t > now
    /\ now' = t
    /\ resp' = NoResponse
    /\ UNCHANGED <<lastTick, stores, inflight, counters, history, harness>>

NextJWT ==
    \/ \E claims \in JwtClaims, ttl \in JwtTtls : JwtCreate(claims, ttl)
    \/ \E kind \in TamperKinds : JwtTamper(kind)
    \/ JwtVerify
    \/ \E h \in HarnessHeaders : JwtAuthenticate(h)
    \/ \E t \in JwtTimePoints : JwtAdvance(t)

SpecJWT == InitJWT /\ [][NextJWT]_vars

-----------------------------------------------------------------------------
(* Properties                                                               *)

(* The codes a token response can name, and what has been issued for one *)
IssuedFor(code) == {i \in issued : i.code = code}

\* C1: for every authorization code, whatever the interleaving of the token
\* requests presenting it, at most one of them is answered 200; a request is
\* refused only when the code is absent or already used when the request reaches
\* the check, and it is then refused with 400 invalid_grant.
C1_SingleRedemption ==
    /\ \A c \in DOMAIN mintedBy : Cardinality(IssuedFor(c)) <= 1
    /\ (resp.ep = "token" /\ resp.key \in DOMAIN mintedBy) =>
          \/ /\ resp.status = 200
             /\ \E i \in IssuedFor(resp.key) : i.req = resp.id /\ i.token = resp.token
          \/ /\ resp.status = 400
             /\ resp.error = "invalid_grant"
             /\ resp.token = <<>>
             /\ (resp.key \notin DOMAIN authCodes \/ authCodes[resp.key].used)

(* two requests for one code overlapped: the one received first was resumed *)
(* last and refused, the code being used by the other and still in the store *)
C1_Witness ==
    /\ resp.ep = "token"
    /\ resp.status = 400
    /\ resp.key \in DOMAIN authCodes
    /\ \E i \in IssuedFor(resp.key) : i.req > resp.id

\* C2: the bundle authenticate yields for a token the token endpoint returned is
\* the bundle the upstream exchange returned to the callback that minted the
\* redeemed code, never the bundle of another attempt.
C2_EndToEndBinding ==
    /\ \A i \in issued :
          LET yielded == authenticate(Header("Bearer ", i.token), tokenStore, now)
          IN  yielded # Undefined => yielded = mintedBy[i.code].linkedInTokens
    /\ (resp.ep = "authenticate" /\ resp.session # Undefined) =>
          \E i \in issued : /\ i.token = resp.token
                            /\ resp.session = mintedBy[i.code].linkedInTokens

(* two attempts with different bundles, and a token resolved to its bundle *)
C2_Witness ==
    /\ resp.ep = "authenticate"
    /\ resp.session # Undefined
    /\ \E c, d \in DOMAIN mintedBy :
          /\ mintedBy[c].linkedInTokens # mintedBy[d].linkedInTokens
          /\ mintedBy[c].txnId # mintedBy[d].txnId

\* C3: at most one authorization code is ever minted per transaction.
C3_OneCodePerTransaction ==
    \A t \in TxnIds : Cardinality({c \in DOMAIN mintedBy : mintedBy[c].txnId = t}) <= 1

\* C9: two authorize requests produce two distinct transaction identifiers; a
\* callback for transaction A reads A only and deletes A only, every other
\* transaction staying in the store unchanged, and its redirect carries A's
\* redirect URI and A's downstream state.
C9_TransactionCorrelation ==
    [][ /\ (resp'.ep = "authorize" /\ resp'.status = 302) =>
              /\ resp'.location.state \notin TxnIds
              /\ DOMAIN transactions' = DOMAIN transactions \cup {resp'.location.state}
        /\ \A cb \in callbacks' \ callbacks :
              /\ cb.txn = transactions[cb.txnId]
              /\ transactions' = transactions
        /\ \A cb \in callbacks \ callbacks' :
              /\ \A t \in DOMAIN transactions \ {cb.txnId} :
                    t \in DOMAIN transactions' /\ transactions'[t] = transactions[t]
              /\ cb.txnId \in DOMAIN transactions =>
                    cb.txn = transactions[cb.txnId]
              /\ resp'.status = 302 =>
                    /\ resp'.location.uri = cb.txn.redirectUri
                    /\ resp'.location.state = cb.txn.state
              /\ (resp'.status = 302 /\ "code" \in DOMAIN resp'.location) =>
                    cb.txnId \notin DOMAIN transactions'
      ]_vars

(* the callback of one transaction has answered with a code while another *)
(* transaction, of another client, is still in the store                   *)
C9_Witness ==
    /\ resp.ep = "callback"
    /\ resp.status = 302
    /\ "code" \in DOMAIN resp.location
    /\ \E t \in DOMAIN transactions :
          /\ t # resp.key
          /\ transactions[t].redirectUri # resp.location.uri

\* C10: a callback whose state names a transaction created more than 10
\* minutes earlier mints no authorization code.
C10_ExpiredTransactionRejected ==
    \A c \in DOMAIN mintedBy : ~mintedBy[c].late

(* the harness token is the one createJWT returned, and its lifetime in whole *)
(* seconds has passed / has not passed in milliseconds                        *)
JwtExpiredInSeconds ==
    now \div MS_PER_SEC > jwtIn.at \div MS_PER_SEC + jwtIn.expiresIn

JwtWithinTtl == now - jwtIn.at <= jwtIn.expiresIn * MS_PER_SEC

\* C4: authenticate yields a credential bundle if and only if the header starts
\* with "Bearer ", the token passes verifyJWT, its payload has a subject and the
\* subject is a key of the session store; the bundle is the one stored under the
\* subject, every other case yields undefined, and no store is modified.
C4_AuthenticatorIff ==
    /\ [](resp.ep = "authenticate" =>
            LET result == verifyJWT(resp.token, now)
                accepted ==
                    /\ resp.key = "Bearer "
                    /\ result.valid
                    /\ "sub" \in DOMAIN result.payload
                    /\ result.payload.sub # ""
                    /\ result.payload.sub \in DOMAIN tokenStore
            IN  /\ accepted <=> resp.session # Undefined
                /\ accepted =>
                      resp.session = tokenStore[result.payload.sub].linkedInTokens)
    /\ [][resp'.ep = "authenticate" => UNCHANGED stores]_vars

(* a bundle was yielded from a non-empty store *)
C4_Witness ==
    /\ resp.ep = "authenticate"
    /\ resp.session # Undefined
    /\ resp.session = tokenStore[jwtIn.claims.sub].linkedInTokens

\* C5: a token that differs from a valid token in its signature segment, or in
\* its payload segment with the signature kept, is reported invalid; claims are
\* returned only for a token whose signature is the keyed signature over its
\* header and payload segments.
C5_TamperRejected ==
    (resp.ep = "verifyJWT") =>
        /\ ( /\ Len(resp.token) = 3
             /\ resp.token[1] = JwtOriginal[1]
             /\ \/ resp.token[2] = JwtOriginal[2] /\ resp.token[3] # JwtOriginal[3]
                \/ resp.token[2] # JwtOriginal[2] /\ resp.token[3] = JwtOriginal[3] )
           => ~resp.result.valid
        /\ resp.result.valid =>
              /\ Len(resp.token) >= 3
              /\ resp.token[3] = Hmac(JWT_SECRET, resp.token[1], resp.token[2])
              /\ resp.result.payload = JsonParse(resp.token[2])

(* a tampered token was refused at a time at which the original verifies *)
C5_Witness ==
    /\ resp.ep = "verifyJWT"
    /\ Len(resp.token) = 3
    /\ resp.token[2] # JwtOriginal[2]
    /\ resp.token[3] = JwtOriginal[3]
    /\ ~resp.result.valid
    /\ verifyJWT(JwtOriginal, now).valid

\* C6: verifyJWT(createJWT(C, t)) checked within t seconds of the creation is
\* valid and returns C with iat, exp = iat + t and jti added (the added fields
\* taking the place of claims of the same names).
C6_RoundTrip ==
    (resp.ep = "verifyJWT" /\ resp.token = JwtOriginal /\ JwtWithinTtl) =>
        /\ resp.result.valid
        /\ DOMAIN resp.result.payload = DOMAIN jwtIn.claims \cup {"iat", "exp", "jti"}
        /\ \A k \in DOMAIN jwtIn.claims \ {"iat", "exp", "jti"} :
              resp.result.payload[k] = jwtIn.claims[k]
        /\ resp.result.payload.iat = jwtIn.at \div MS_PER_SEC
        /\ resp.result.payload.exp = resp.result.payload.iat + jwtIn.expiresIn
        /\ resp.result.payload.jti = jwtIn.rnd

(* verified at the very end of the lifetime, created off a second boundary *)
C6_Witness ==
    /\ resp.ep = "verifyJWT"
    /\ resp.token = JwtOriginal
    /\ now - jwtIn.at = jwtIn.expiresIn * MS_PER_SEC
    /\ jwtIn.at % MS_PER_SEC # 0
    /\ resp.result.valid

\* C7: a token created at time c with TTL t fails verifyJWT at every time whose
\* whole seconds exceed those of c plus t, and authenticate then yields
\* undefined even if the session record of its subject is in the store.
C7_ExpiryEnforced ==
    (jwtIn.made /\ JwtExpiredInSeconds) =>
        /\ ~verifyJWT(JwtOriginal, now).valid
        /\ authenticate(Header("Bearer ", JwtOriginal), tokenStore, now) = Undefined
        /\ (resp.ep = "verifyJWT" /\ resp.token = JwtOriginal) => ~resp.result.valid
        /\ (resp.ep = "authenticate" /\ resp.token = JwtOriginal) =>
              resp.session = Undefined

(* the expired token was presented while the session of its subject is stored *)
C7_Witness ==
    /\ resp.ep = "authenticate"
    /\ resp.key = "Bearer "
    /\ resp.token = JwtOriginal
    /\ JwtExpiredInSeconds
    /\ "sub" \in DOMAIN jwtIn.claims
    /\ jwtIn.claims.sub \in DOMAIN tokenStore
    /\ resp.session = Undefined

\* C8: every token that is not exactly three segments is reported invalid.
C8_MalformedRejected ==
    (resp.ep = "verifyJWT" /\ Len(resp.token) # 3) => ~resp.result.valid

\* C11: a token request presenting a never-used authorization code created more
\* than 5 minutes earlier is not answered with a token.
C11_ExpiredCodeRejected ==
    \A i \in issued : ~i.late

\* C13: whenever an authorization code minted for an attempt is in the store,
\* the transaction of that attempt is not in the transaction store.
C13_CodeExcludesTransaction ==
    \A c \in DOMAIN authCodes : mintedBy[c].txnId \notin DOMAIN transactions

(* a code is in the store while the transaction of another attempt still is *)
C13_Witness ==
    /\ \E c \in DOMAIN authCodes : ~authCodes[c].used
    /\ \E t \in DOMAIN transactions : \A c \in DOMAIN mintedBy : mintedBy[c].txnId # t

\* C14: a successful token request adds exactly one session record, under the
\* subject of the returned token and holding the redeemed code's bundle; no other
\* step adds or changes a session record; every session record belongs to an
\* authorization code that is marked used or is no longer in the store.
C14_RedemptionCreatesSession ==
    /\ [](\A s \in DOMAIN tokenStore :
             \E i \in issued :
                /\ i.sub = s
                /\ tokenStore[s].linkedInTokens = mintedBy[i.code].linkedInTokens
                /\ (i.code \notin DOMAIN authCodes \/ authCodes[i.code].used))
    /\ [][ IF resp'.ep = "token" /\ resp'.status = 200
           THEN LET result == verifyJWT(resp'.token, now')
                IN  /\ result.valid
                    /\ result.payload.sub \notin DOMAIN tokenStore
                    /\ DOMAIN tokenStore' = DOMAIN tokenStore \cup {result.payload.sub}
                    /\ tokenStore'[result.payload.sub].linkedInTokens =
                          authCodes[resp'.key].linkedInTokens
                    /\ \A s \in DOMAIN tokenStore : tokenStore'[s] = tokenStore[s]
           ELSE /\ DOMAIN tokenStore' \subseteq DOMAIN tokenStore
                /\ \A s \in DOMAIN tokenStore' : tokenStore'[s] = tokenStore[s]
      ]_vars

(* a session record is stored whose authorization code has been swept *)
C14_Witness ==
    \E i \in issued : i.sub \in DOMAIN tokenStore /\ i.code \notin DOMAIN authCodes

\* C12: immediately after every reaper tick no transaction older than 10
\* minutes, no authorization code older than 5 minutes and no session record
\* older than 1 hour is in its store; entries not older than that are kept.
C12_SweepPostcondition ==
    [][ lastTick' # lastTick =>
          /\ \A k \in DOMAIN transactions :
                k \in DOMAIN transactions' <=> ~(now' - transactions[k].createdAt > TXN_TTL)
          /\ \A k \in DOMAIN authCodes :
                k \in DOMAIN authCodes' <=> ~(now' - authCodes[k].createdAt > CODE_TTL)
          /\ \A k \in DOMAIN tokenStore :
                k \in DOMAIN tokenStore' <=> ~(now' - tokenStore[k].createdAt > SESSION_TTL)
          /\ \A k \in DOMAIN transactions' : now' - transactions'[k].createdAt <= TXN_TTL
          /\ \A k \in DOMAIN authCodes' : now' - authCodes'[k].createdAt <= CODE_TTL
          /\ \A k \in DOMAIN tokenStore' : now' - tokenStore'[k].createdAt <= SESSION_TTL
      ]_vars

(* at the instant of a tick a session and its code are gone, and a younger *)
(* transaction is still there                                              *)
C12_Witness ==
    /\ lastTick = now
    /\ \E i \in issued : i.sub \notin DOMAIN tokenStore /\ i.code \notin DOMAIN authCodes
    /\ \E t \in DOMAIN transactions : now - transactions[t].createdAt <= TXN_TTL

\* C15: at every instant at which a token the token endpoint issued still
\* passes verifyJWT, authenticate yields a bundle for it (its session record has
\* not been removed).
C15_SessionOutlivesToken ==
    \A i \in issued :
        verifyJWT(i.token, now).valid =>
            authenticate(Header("Bearer ", i.token), tokenStore, now) # Undefined

\* C16: an authorize request without client_id, without redirect_uri or with a
\* response_type other than "code" is answered 400 invalid_request and changes
\* none of the four stores.
C16_AuthorizeRejectsInvalid ==
    [][ \A q \in AuthorizeRequests :
          ( /\ \/ q.client_id \in {Null, ""}
               \/ q.redirect_uri \in {Null, ""}
               \/ q.response_type # "code"
            /\ Authorize(q) )
          => /\ resp'.ep = "authorize"
             /\ resp'.status = 400
             /\ resp'.error = "invalid_request"
             /\ UNCHANGED stores
             /\ ntxn' = ntxn
      ]_vars

(* an authorize request was refused while the stores hold a transaction and a code *)
C16_Witness ==
    /\ resp.ep = "authorize"
    /\ resp.status = 400
    /\ DOMAIN transactions # {}
    /\ DOMAIN authCodes # {}

\* C17: a token request whose grant_type is not authorization_code is answered
\* 400 unsupported_grant_type whatever else it carries, and changes no store: a
\* live unused code it names stays unused.
C17_UnsupportedGrant ==
    [][ \A tr \in tokenReqs \ tokenReqs' :
          tr.grant_type # "authorization_code" =>
             /\ resp'.ep = "token"
             /\ resp'.id = tr.id
             /\ resp'.status = 400
             /\ resp'.error = "unsupported_grant_type"
             /\ resp'.token = <<>>
             /\ UNCHANGED stores
             /\ issued' = issued
      ]_vars

(* the refused request named a code that is in the store and not used; the  *)
(* advertised refresh_token grant is among the refused ones                 *)
C17_Witness ==
    /\ resp.ep = "token"
    /\ resp.error = "unsupported_grant_type"
    /\ resp.key \in DOMAIN authCodes
    /\ ~authCodes[resp.key].used

\* C18: a callback with an error parameter is answered 400 with that error and
\* its description, whatever code and state it carries; no exchange is started
\* and no store is changed.
C18_UpstreamErrorReported ==
    [][ \A q \in CallbackQueries :
          (q.error \notin {Null, ""} /\ CallbackStart(q)) =>
             /\ resp'.ep = "callback"
             /\ resp'.status = 400
             /\ resp'.error = q.error
             /\ resp'.desc = q.error_description
             /\ UNCHANGED stores
             /\ callbacks' = callbacks
             /\ ncb' = ncb
      ]_vars

(* the error callback named a transaction that is in the store, and still is *)
C18_Witness ==
    /\ resp.ep = "callback"
    /\ resp.status = 400
    /\ resp.error = "access_denied"
    /\ resp.key \in DOMAIN transactions

\* C19: when the upstream exchange fails, the callback answers 302 to the
\* transaction's redirect URI with error=server_error, a description and the
\* transaction's downstream state, and without a code.
C19_ExchangeFailureRedirects ==
    [][ \A cb \in callbacks : \A answer \in UpstreamAnswers(cb.code) :
          (~answer.ok /\ CallbackResume(cb, answer)) =>
             /\ resp'.ep = "callback"
             /\ resp'.status = 302
             /\ resp'.location.uri = cb.txn.redirectUri
             /\ DOMAIN resp'.location = {"uri", "error", "error_description", "state"}
             /\ resp'.location.error = "server_error"
             /\ resp'.location.state = cb.txn.state
      ]_vars

\* C20: a callback that does not end in the redirect carrying a code leaves no
\* authorization code and no session record behind.
C20_NoPartialState ==
    [][ /\ \A cb \in callbacks \ callbacks' :
              ~(resp'.status = 302 /\ "code" \in DOMAIN resp'.location) =>
                  /\ authCodes' = authCodes
                  /\ tokenStore' = tokenStore
        /\ (resp'.ep = "callback" /\ resp'.status = 400) =>
              /\ authCodes' = authCodes
              /\ tokenStore' = tokenStore
      ]_vars

\* C21: once a callback of a transaction has failed in the upstream exchange,
\* no later callback presenting that transaction's identifier mints an
\* authorization code.
C21_FailureIsTerminal ==
    \A c \in DOMAIN mintedBy : ~mintedBy[c].retry

C23_UpstreamRedirectFixed ==
    [][ \A q \in FlowAuthorizeRequests :
          Authorize(q) =>
             \E txnId \in DOMAIN transactions' \ DOMAIN transactions :
                resp'.location =
                    [uri |-> "https://www.linkedin.com/oauth/v2/authorization",
                     response_type |-> "code",
                     client_id |-> UPSTREAM_CLIENT_ID,
                     redirect_uri |-> CALLBACK_URL,
                     state |-> txnId,
                     scope |-> "openid profile email w_member_social"]
      ]_vars

(* the client had asked for a narrower scope and sent a PKCE challenge *)
C23_Witness ==
    /\ resp.ep = "authorize"
    /\ resp.status = 302
    /\ resp.location.state \in DOMAIN transactions
    /\ transactions[resp.location.state].codeChallenge = "ch1"
    /\ transactions[resp.location.state].scope = <<"openid", "profile">>

\* C24: every refusal of a code by the token endpoint is the same response
\* (status, error and description), whether the code is unknown, swept or
\* already used; every refusal of a transaction identifier by the callback is
\* the same response, whether the transaction was swept or never existed.
C24_UniformRefusal ==
    /\ (resp.ep = "token" /\ resp.error = "invalid_grant") =>
          /\ resp.status = 400
          /\ resp.desc = "Invalid or expired code"
    /\ (resp.ep = "callback" /\ resp.status = 400 /\ resp.error = "invalid_request"
           /\ resp.key # Null) =>
          resp.desc = "Invalid or expired state"

\* C25: every handler ends by sending a response; no exception leaves a request
\* handler.
C25_NoErrorEscapes ==
    ~(resp.ep # "none" /\ resp.status = 0 /\ resp.error = "uncaught")

\* C26: what the token endpoint answers to a request presenting a code, and
\* what it changes, is decided by the code and the code store alone: a live
\* unused code is redeemed whatever redirect_uri, code_verifier and client_id
\* the request carries, and any other code is refused without a change.
C26_RedemptionIgnoresPkce ==
    [][ \A tr \in tokenReqs \ tokenReqs' :
          (tr.grant_type = "authorization_code" /\ tr.code # Null) =>
             LET live == tr.code \in DOMAIN authCodes /\ ~authCodes[tr.code].used
             IN  /\ resp'.ep = "token" /\ resp'.id = tr.id
                 /\ resp'.status = IF live THEN 200 ELSE 400
                 /\ live =>
                       /\ authCodes' = [authCodes EXCEPT ![tr.code].used = TRUE]
                       /\ \E sub \in DOMAIN tokenStore' \ DOMAIN tokenStore :
                             /\ DOMAIN tokenStore' = DOMAIN tokenStore \cup {sub}
                             /\ tokenStore'[sub].linkedInTokens =
                                   authCodes[tr.code].linkedInTokens
                       /\ UNCHANGED <<transactions, registeredClients>>
                 /\ ~live => UNCHANGED stores
      ]_vars

(* a code minted for the client that sent a PKCE challenge was redeemed by a *)
(* request with another redirect_uri, another client_id and a wrong verifier *)
C26_Witness ==
    /\ resp.ep = "token"
    /\ resp.status = 200
    /\ \E i \in issued :
          /\ i.req = resp.id
          /\ i.code \in DOMAIN authCodes
          /\ authCodes[i.code].clientId = "def"
          /\ i.sent.client_id # authCodes[i.code].clientId
          /\ i.sent.redirect_uri # authCodes[i.code].redirectUri
          /\ i.sent.code_verifier = "wrong"

\* C27: no step removes or changes an entry of the registered clients; a
\* registration adds exactly one entry, under an identifier that was not in use
\* and that the response returns as client_id and as client_secret; no other
\* step adds an entry.
C27_ClientsRetained ==
    [][ /\ \A k \in DOMAIN registeredClients :
              /\ k \in DOMAIN registeredClients'
              /\ registeredClients'[k] = registeredClients[k]
        /\ \A body \in RegisterBodies :
              (body.json /\ Register(body)) =>
                 /\ resp'.status = 200
                 /\ resp'.result.client_id \notin DOMAIN registeredClients
                 /\ DOMAIN registeredClients' =
                       DOMAIN registeredClients \cup {resp'.result.client_id}
                 /\ resp'.result.client_secret = resp'.result.client_id
        /\ resp'.ep # "register" => registeredClients' = registeredClients
      ]_vars

(* two clients registered more than an hour ago are still there right after *)
(* a tick that removed a session                                            *)
C27_Witness ==
    /\ lastTick = now
    /\ Cardinality(DOMAIN registeredClients) = 2
    /\ \A k \in DOMAIN registeredClients :
          now - registeredClients[k].createdAt > SESSION_TTL
    /\ \E i \in issued : i.sub \notin DOMAIN tokenStore

C30_ExchangeInvocation ==
    [][ /\ \A q \in CallbackQueries :
              CallbackStart(q) =>
                 LET eligible == /\ q.error \in {Null, ""}
                                 /\ q.code \notin {Null, ""}
                                 /\ q.state \notin {Null, ""}
                                 /\ q.state \in DOMAIN transactions
                 IN  /\ eligible <=> callbacks' # callbacks
                     /\ eligible =>
                           \E cb \in callbacks' \ callbacks :
                              /\ callbacks' = callbacks \cup {cb}
                              /\ cb.id \notin {c.id : c \in callbacks}
                              /\ cb.code = q.code
                              /\ cb.redirectUri = "BASE_URL/oauth/callback"
                              /\ cb.txn = transactions[q.state]
                              /\ ncb' = ncb + 1
        /\ (callbacks' \ callbacks # {}) =>
              /\ Cardinality(callbacks' \ callbacks) = 1
              /\ \E q \in CallbackQueries : CallbackStart(q)
        /\ \A cb \in callbacks \ callbacks' :
              /\ callbacks' = callbacks \ {cb}
              /\ ncb' = ncb
      ]_vars

(* the only exchange started so far has failed, and none is pending *)
C30_Witness ==
    /\ resp.ep = "callback"
    /\ resp.status = 302
    /\ "error" \in DOMAIN resp.location
    /\ callbacks = {}
    /\ ncb = 1
    /\ resp.key \in DOMAIN transactions

\* C29: under fair reaper ticks and an advancing clock, every transaction,
\* every authorization code and every session record that is in its store is
\* eventually not in it, whether or not it was consumed, redeemed or looked up.
C29_EventuallyExpired ==
    /\ \A t \in {RandomId("t", i) : i \in 1..MaxTxn} :
          (t \in DOMAIN transactions) ~> (t \notin DOMAIN transactions)
    /\ \A c \in {RandomId("c", i) : i \in 1..MaxCallbacks} :
          (c \in DOMAIN authCodes) ~> (c \notin DOMAIN authCodes)
    /\ \A j \in {RandomId("j", i) : i \in 1..MaxTokenReqs} :
          (j \in DOMAIN tokenStore) ~> (j \notin DOMAIN tokenStore)

(* a transaction never called back, a code never redeemed and a session have *)
(* all been inserted and are all gone                                        *)
C29_Witness ==
    /\ transactions = EmptyMap /\ authCodes = EmptyMap /\ tokenStore = EmptyMap
    /\ issued # {}
    /\ \E c \in DOMAIN mintedBy : IssuedFor(c) = {}
    /\ \E t \in TxnIds : \A c \in DOMAIN mintedBy : mintedBy[c].txnId # t

\* C31: a token request is answered 200 or 400; a missing code is refused with
\* invalid_request, an unknown or used code with invalid_grant, another grant
\* type with unsupported_grant_type; a 400 leaves the code store and the session
\* store as they were, and only a 200 marks a code or adds a session.
C31_RefusalChangesNothing ==
    [][ /\ \A tr \in tokenReqs \ tokenReqs' :
              /\ resp'.ep = "token" /\ resp'.id = tr.id
              /\ resp'.status \in {200, 400}
              /\ resp'.status = 400 => (authCodes' = authCodes /\ tokenStore' = tokenStore)
              /\ resp'.status = 200 => (authCodes' # authCodes /\ tokenStore' # tokenStore)
              /\ tr.grant_type # "authorization_code" =>
                    (resp'.status = 400 /\ resp'.error = "unsupported_grant_type")
              /\ (tr.grant_type = "authorization_code" /\ tr.code \in {Null, ""}) =>
                    (resp'.status = 400 /\ resp'.error = "invalid_request")
              /\ ( /\ tr.grant_type = "authorization_code"
                   /\ tr.code \notin {Null, ""}
                   /\ (tr.code \notin DOMAIN authCodes \/ authCodes[tr.code].used) ) =>
                    (resp'.status = 400 /\ resp'.error = "invalid_grant")
        /\ ( \/ DOMAIN tokenStore' \ DOMAIN tokenStore # {}
             \/ \E c \in DOMAIN authCodes \cap DOMAIN authCodes' :
                   authCodes'[c].used # authCodes[c].used ) =>
              (resp'.ep = "token" /\ resp'.status = 200)
      ]_vars

(* a request without code was refused while an unused code and a session are stored *)
C31_Witness ==
    /\ resp.ep = "token"
    /\ resp.status = 400
    /\ resp.error = "invalid_request"
    /\ \E c \in DOMAIN authCodes : ~authCodes[c].used
    /\ tokenStore # EmptyMap

\* C32: a redeemed authorization code stays in the store, marked used; a used
\* flag never returns to false; only a reaper tick removes an authorization code.
C32_MarkedNotDeleted ==
    [][ /\ \A c \in DOMAIN authCodes :
              /\ c \notin DOMAIN authCodes' => lastTick' # lastTick
              /\ (c \in DOMAIN authCodes' /\ authCodes[c].used) => authCodes'[c].used
        /\ (resp'.ep = "token" /\ resp'.status = 200) =>
              /\ resp'.key \in DOMAIN authCodes'
              /\ authCodes'[resp'.key].used
              /\ ~authCodes[resp'.key].used
      ]_vars

(* a used code is still in the store after a reaper tick that came after it *)
C32_Witness ==
    \E c \in DOMAIN authCodes :
        /\ authCodes[c].used
        /\ lastTick > authCodes[c].createdAt

\* C33: an accepted authorize request adds exactly one transaction, under an
\* identifier that was not in the store, holding the request's client id,
\* redirect URI, state and PKCE challenge and method, and the requested scope
\* list (the fixed list when the request has no scope parameter); the other
\* stores and the transactions already there are unchanged.
C33_TransactionCreated ==
    [][ \A q \in AuthorizeRequests :
          ( /\ q.client_id \notin {Null, ""}
            /\ q.redirect_uri \notin {Null, ""}
            /\ q.response_type = "code"
            /\ Authorize(q) )
          => \E txnId \in DOMAIN transactions' \ DOMAIN transactions :
                /\ DOMAIN transactions' = DOMAIN transactions \cup {txnId}
                /\ \A k \in DOMAIN transactions : transactions'[k] = transactions[k]
                /\ transactions'[txnId].clientId = q.client_id
                /\ transactions'[txnId].redirectUri = q.redirect_uri
                /\ q.state # Null => transactions'[txnId].state = q.state
                /\ transactions'[txnId].codeChallenge = q.code_challenge
                /\ transactions'[txnId].codeChallengeMethod = q.code_challenge_method
                /\ transactions'[txnId].scope =
                      IF q.scope = Null
                      THEN <<"openid", "profile", "email", "w_member_social">>
                      ELSE IF q.scope = "openid profile" THEN <<"openid", "profile">>
                      ELSE <<q.scope>>
                /\ transactions'[txnId].createdAt = now
                /\ UNCHANGED <<authCodes, registeredClients, tokenStore>>
      ]_vars

(* a second transaction, with a requested scope and a PKCE challenge, was   *)
(* added next to one of another client                                      *)
C33_Witness ==
    /\ resp.ep = "authorize"
    /\ resp.status = 302
    /\ Cardinality(DOMAIN transactions) = 2
    /\ \E t \in DOMAIN transactions :
          /\ t # resp.location.state
          /\ transactions[t].clientId = "abc"
    /\ resp.location.state \in DOMAIN transactions
    /\ transactions[resp.location.state].codeChallengeMethod = "S256"
    /\ transactions[resp.location.state].scope = <<"openid", "profile">>

\* C34: a reaper tick leaves in place, with its value, every transaction of age
\* at most 600000 ms, every authorization code of age at most 300000 ms and
\* every session record of age at most 3600000 ms, and leaves the registered
\* clients as they are.
C34_SweepKeepsLiveEntries ==
    [][ lastTick' # lastTick =>
          /\ \A k \in DOMAIN transactions :
                now' - transactions[k].createdAt <= 600000 =>
                   (k \in DOMAIN transactions' /\ transactions'[k] = transactions[k])
          /\ \A k \in DOMAIN authCodes :
                now' - authCodes[k].createdAt <= 300000 =>
                   (k \in DOMAIN authCodes' /\ authCodes'[k] = authCodes[k])
          /\ \A k \in DOMAIN tokenStore :
                now' - tokenStore[k].createdAt <= 3600000 =>
                   (k \in DOMAIN tokenStore' /\ tokenStore'[k] = tokenStore[k])
          /\ registeredClients' = registeredClients
      ]_vars

(* right after a tick a session exactly at its TTL is still stored, next to *)
(* a registered client, the codes and transactions of its age being gone    *)
C34_Witness ==
    /\ lastTick = now
    /\ \E j \in DOMAIN tokenStore : now - tokenStore[j].createdAt = SESSION_TTL
    /\ registeredClients # EmptyMap
    /\ authCodes = EmptyMap
    /\ ntxn > 0 /\ transactions = EmptyMap

\* C36: an authorize request with a non-empty client_id, a non-empty
\* redirect_uri and response_type=code gets the upstream redirect and its
\* transaction whatever the registered clients are: what it answers and stores
\* is given by the request, the clock and the fresh identifier alone, and no
\* step other than a registration changes the registered clients.
C36_AuthorizeIgnoresRegistration ==
    [][ /\ \A q \in RegAuthorizeRequests :
              Authorize(q) =>
                 \E txnId \in DOMAIN transactions' \ DOMAIN transactions :
                    /\ resp' = Redirect("authorize", 0, Null, UpstreamRedirect(txnId))
                    /\ transactions' =
                          MapSet(transactions, txnId,
                                 NewTransaction(q, transactions'[txnId].state, now))
                    /\ q.state # Null => transactions'[txnId].state = q.state
                    /\ UNCHANGED <<authCodes, registeredClients, tokenStore>>
        /\ resp'.ep # "register" => registeredClients' = registeredClients
      ]_vars

(* with a client registered for one redirect URI, a transaction was created *)
(* for an unregistered client and one for the registered client with a      *)
(* redirect URI it did not register                                         *)
C36_Witness ==
    /\ resp.ep = "authorize"
    /\ resp.status = 302
    /\ \E r \in DOMAIN registeredClients :
          /\ registeredClients[r].redirectUris = <<"https://app/cb">>
          /\ \E t \in DOMAIN transactions :
                /\ transactions[t].clientId = r
                /\ transactions[t].redirectUri = "https://other/cb"
    /\ \E t \in DOMAIN transactions :
          transactions[t].clientId \notin DOMAIN registeredClients

C37_EveryRequestAnswered ==
    /\ resp.ep \in StatelessRoutes => resp.status # 0
    /\ resp.ep \in {"mcp", "not_found"} =>
          (resp.status = 404 /\ resp.error = "not_found")

\* C38: no step changes the credential bundle of a session record that stays
\* in the store, a token refresh inside a tool call's client included, and an
\* authentication that yields a session yields the bundle the upstream
\* exchange produced for the code the signed token was issued for.
C38_BundleNeverModified ==
    [][ /\ \A j \in DOMAIN tokenStore \cap DOMAIN tokenStore' :
              tokenStore'[j] = tokenStore[j]
        /\ \A h \in FlowHeaders :
              (Authenticate(h) /\ resp'.session # Undefined)
              => \E i \in issued :
                    /\ i.token = h.rest
                    /\ resp'.session = mintedBy[i.code].linkedInTokens
      ]_vars

(* a tool call's client has replaced both of its tokens in a refresh, and   *)
(* an authentication made afterwards yields the bundle of the exchange      *)
C38_Witness ==
    /\ resp.ep = "authenticate"
    /\ resp.session # Undefined
    /\ resp.session.accessToken = "at:uc1"
    /\ resp.session.refreshToken = "rt:uc1"
    /\ client.pc = "done"
    /\ client.accessToken = "at:refreshed"
    /\ client.refreshToken = "rt:rotated"

(* positions of makeRequest, counted from its end *)
C39_Rank(pc) ==
    IF pc = "start" THEN 5
    ELSE IF pc = "refreshFirst" THEN 4
    ELSE IF pc = "fetch" THEN 3
    ELSE IF pc = "refreshRetry" THEN 2
    ELSE IF pc = "fetchRetry" THEN 1
    ELSE 0

\* C39: a makeRequest makes at most two refresh calls and two sends and every
\* step brings it nearer to its end; it refreshes beforehand exactly when the
\* token expiry has passed and a refresh token exists; a first response 401
\* with a refresh token leads to one refresh and one resend, whose response is
\* returned whatever its status; without a refresh token there is no refresh
\* and no resend.
C39_MakeRequestBounded ==
    /\ [] ( /\ client.refreshes <= 2
            /\ client.sends <= 2
            /\ client.sends = 2 => client.refreshes >= 1
            /\ Falsy(client.refreshToken) => (client.refreshes = 0 /\ client.sends <= 1) )
    /\ [][ /\ (client.pc \notin {"none", "done"} /\ client' # client)
                 => C39_Rank(client'.pc) < C39_Rank(client.pc)
           /\ (client.pc = "start" /\ client' # client)
                 => ( client'.pc = "refreshFirst"
                      <=> (now >= client.tokenExpiry /\ ~Falsy(client.refreshToken)) )
           /\ \A status \in HttpStatuses :
                 (client.pc = "fetchRetry" /\ FetchReturn(status))
                 => ( /\ client'.pc = "done"
                      /\ client'.status = status
                      /\ client'.sends = 2
                      /\ client'.refreshes = client.refreshes )
           /\ (client.pc = "fetch" /\ ~Falsy(client.refreshToken) /\ FetchReturn(401))
                 => ( /\ client'.pc = "refreshRetry"
                      /\ client'.refreshes = client.refreshes + 1
                      /\ client'.sends = 1 )
         ]_vars

(* a makeRequest that refreshed beforehand, got 401, refreshed, sent again  *)
(* and returned the second 401                                              *)
C39_Witness ==
    /\ client.pc = "done"
    /\ client.pre
    /\ client.refreshes = 2
    /\ client.sends = 2
    /\ client.status = 401

====
